---- MODULE Spec2Model ----
(***************************************************************************)
(* Library of Babel hexagon-address codec (babel_lib.py).                  *)
(*                                                                         *)
(* A Python str is modelled as a sequence of characters, a character as a  *)
(* one-character TLA+ string.  Three non-ASCII code points are written by  *)
(* their names: "U+0130" (capital I with dot above), "U+0307" (combining   *)
(* dot above) and "U+00E9" (e with acute).  A call that raises is a record *)
(* with raised = "ValueError"; a call that returns has raised = "None".    *)
(***************************************************************************)
EXTENDS Integers, Sequences, FiniteSets, TLC

VARIABLES last, prev

vars == <<last, prev>>

(***************************************************************************)
(* State: the latest call, and the call its arguments were taken from.     *)
(***************************************************************************)
NoCall == [fn |-> "none", args |-> << >>, raised |-> "None", ret |-> << >>]

\* A call of function fn on args that ended as result says: it returned
\* (raised = "None") the value ret, or raised ValueError.
Call(fn, args, result) ==
    [fn |-> fn, args |-> args, raised |-> result.raised, ret |-> result.ret]

(***************************************************************************)
(* Bounds of the model.                                                    *)
(***************************************************************************)
\* The page length the model runs with; the program's PAGE_LENGTH is 3200,
\* which puts 29^3200 far outside what can be enumerated.  Every definition
\* below is written over PAGE_LENGTH, not over this number.
ScaledPageLength == 2

\* The largest integer handed to _to_base36 directly.
MaxNum == 1300

(***************************************************************************)
(* Characters: ord(), chr(), str.isalpha(), str.lower(), str.isspace().    *)
(***************************************************************************)
\* The printable ASCII characters, code points 32..126, in order (the grave
\* accent, code point 96, is written by its name).
ASCII ==
    << " ", "!", "\"", "#", "$", "%", "&", "'", "(", ")", "*", "+", ",", "-",
       ".", "/", "0", "1", "2", "3", "4", "5", "6", "7", "8", "9", ":", ";",
       "<", "=", ">", "?", "@", "A", "B", "C", "D", "E", "F", "G", "H", "I",
       "J", "K", "L", "M", "N", "O", "P", "Q", "R", "S", "T", "U", "V", "W",
       "X", "Y", "Z", "[", "\\", "]", "^", "_", "U+0060", "a", "b", "c", "d", "e",
       "f", "g", "h", "i", "j", "k", "l", "m", "n", "o", "p", "q", "r", "s",
       "t", "u", "v", "w", "x", "y", "z", "{", "|", "}", "~" >>

IndexOf(seq, c) == CHOOSE i \in 1..Len(seq) : seq[i] = c

Occurs(seq, c) == \E i \in 1..Len(seq) : seq[i] = c

\* The characters of the model.
Characters ==
    { ASCII[i] : i \in 1..Len(ASCII) }
    \cup { "\t", "\n", "U+00E9", "U+0130", "U+0307" }

\* The code point of every character of the model.
CodePoint ==
    [c \in Characters |->
        CASE c = "\t" -> 9
          [] c = "\n" -> 10
          [] c = "U+00E9" -> 233
          [] c = "U+0130" -> 304
          [] c = "U+0307" -> 775
          [] OTHER -> 31 + IndexOf(ASCII, c)]

ord(c) == CodePoint[c]

chr(n) ==
    CASE n = 9 -> "\t"
      [] n = 10 -> "\n"
      [] n = 233 -> "U+00E9"
      [] n = 304 -> "U+0130"
      [] n = 775 -> "U+0307"
      [] OTHER -> ASCII[n - 31]

IsUpper(c) == ord(c) \in 65..90

IsLower(c) == ord(c) \in 97..122

IsDecimal(c) == ord(c) \in 48..57

\* str.isalpha() of one character.
isalpha(c) == IsUpper(c) \/ IsLower(c) \/ c \in {"U+00E9", "U+0130"}

\* str.isspace() of one character.
isspace(c) == c \in {" ", "\t", "\n"}

\* str.lower() of one character: a string, since U+0130 lowers to two
\* code points.
LowerChar(c) ==
    CASE IsUpper(c) -> << chr(ord(c) + 32) >>
      [] c = "U+0130" -> << "i", "U+0307" >>
      [] OTHER -> << c >>

RECURSIVE lower(_)
\* str.lower().
lower(s) == IF s = << >> THEN << >> ELSE LowerChar(Head(s)) \o lower(Tail(s))

RECURSIVE reversed(_)
\* reversed(seq), joined.
reversed(s) ==
    IF s = << >> THEN << >> ELSE Append(reversed(Tail(s)), Head(s))

RECURSIVE Pow(_, _)
\* b ** e on Python's unbounded integers, e >= 0.
Pow(b, e) == IF e = 0 THEN 1 ELSE b * Pow(b, e - 1)

(***************************************************************************)
(* Module constants.                                                       *)
(***************************************************************************)
CHARSET ==
    << "a", "b", "c", "d", "e", "f", "g", "h", "i", "j", "k", "l", "m", "n",
       "o", "p", "q", "r", "s", "t", "u", "v", "w", "x", "y", "z", " ", ",",
       "." >>

CHARSET_LENGTH == Len(CHARSET)

PAGE_LENGTH == ScaledPageLength

BASE36_DIGITS ==
    << "0", "1", "2", "3", "4", "5", "6", "7", "8", "9", "a", "b", "c", "d",
       "e", "f", "g", "h", "i", "j", "k", "l", "m", "n", "o", "p", "q", "r",
       "s", "t", "u", "v", "w", "x", "y", "z" >>

(***************************************************************************)
(* Results of calls.                                                       *)
(***************************************************************************)
Return(v) == [raised |-> "None", ret |-> v]

ValueError == [raised |-> "ValueError", ret |-> << >>]

Returned(r) == r.raised = "None"

(***************************************************************************)
(* The built-ins int(s, base), format(n, "0Wd") and str(n).                *)
(***************************************************************************)
\* The value of one digit character, 36 when it is no digit of any base.
DigitValue(c) ==
    CASE IsDecimal(c) -> ord(c) - 48
      [] IsLower(c) -> ord(c) - 97 + 10
      [] IsUpper(c) -> ord(c) - 65 + 10
      [] OTHER -> 36

RECURSIVE lstrip(_)
lstrip(s) == IF s # << >> /\ isspace(Head(s)) THEN lstrip(Tail(s)) ELSE s

\* str.strip(): what int() drops around its literal.
strip(s) == reversed(lstrip(reversed(lstrip(s))))

\* The digits part of an integer literal: digits of the base, single
\* underscores allowed between two digits only.
ValidDigits(d, base) ==
    /\ d # << >>
    /\ \A i \in 1..Len(d) :
          \/ DigitValue(d[i]) < base
          \/ /\ d[i] = "_"
             /\ 1 < i
             /\ i < Len(d)
             /\ d[i - 1] # "_"
             /\ d[i + 1] # "_"

RECURSIVE DigitsValue(_, _, _)
DigitsValue(d, base, acc) ==
    IF d = << >> THEN acc
    ELSE IF Head(d) = "_" THEN DigitsValue(Tail(d), base, acc)
    ELSE DigitsValue(Tail(d), base, acc * base + DigitValue(Head(d)))

\* int(s, base) for base 10 and base 36 (no 0x/0o/0b prefix applies).
int(s, base) ==
    LET t == strip(s)
        signed == t # << >> /\ Head(t) \in {"+", "-"}
        d == IF signed THEN Tail(t) ELSE t
    IN  IF ~ValidDigits(d, base) THEN ValueError
        ELSE IF signed /\ Head(t) = "-"
             THEN Return(0 - DigitsValue(d, base, 0))
             ELSE Return(DigitsValue(d, base, 0))

RECURSIVE DecimalDigits(_)
\* The decimal digits of n >= 0, most significant first.
DecimalDigits(n) ==
    IF n < 10 THEN << chr(48 + n) >>
    ELSE Append(DecimalDigits(n \div 10), chr(48 + (n % 10)))

\* str(n), which is also f"{n}".
str(n) == IF n < 0 THEN << "-" >> \o DecimalDigits(0 - n) ELSE DecimalDigits(n)

RECURSIVE Zeros(_)
Zeros(k) == IF k <= 0 THEN << >> ELSE << "0" >> \o Zeros(k - 1)

\* f"{n:0Wd}": zero padding to width W, the sign counted in the width and
\* written before the zeros.
ZeroPadded(n, width) ==
    IF n < 0
    THEN << "-" >> \o Zeros(width - 1 - Len(DecimalDigits(0 - n)))
                   \o DecimalDigits(0 - n)
    ELSE Zeros(width - Len(DecimalDigits(n))) \o DecimalDigits(n)

(***************************************************************************)
(* babel_lib.py                                                            *)
(***************************************************************************)
_char_to_value(c) ==
    IF isalpha(c) THEN ord(LowerChar(c)[1]) - ord("a")
    ELSE IF c = " " THEN 26
    ELSE IF c = "," THEN 27
    ELSE IF c = "." THEN 28
    ELSE 26

_value_to_char(v) ==
    IF 0 <= v /\ v <= 25 THEN chr(ord("a") + v)
    ELSE IF v = 26 THEN " "
    ELSE IF v = 27 THEN ","
    ELSE IF v = 28 THEN "."
    ELSE " "

RECURSIVE ToBase36Loop(_, _)
\* The while loop of _to_base36: chars collects the digits, least
\* significant first.
ToBase36Loop(num, chars) ==
    IF num > 0
    THEN ToBase36Loop(num \div 36, Append(chars, BASE36_DIGITS[(num % 36) + 1]))
    ELSE chars

\* _to_base36 returning chars as collected, least significant digit first.
ToBase36Unreversed(num) ==
    IF num = 0 THEN << "0" >> ELSE ToBase36Loop(num, << >>)

_to_base36(num) ==
    IF num = 0 THEN << "0" >> ELSE reversed(ToBase36Loop(num, << >>))

_from_base36(s) == int(s, 36)

RECURSIVE NormalizeLoop(_)
\* The for loop of _normalize_text over text.lower().
NormalizeLoop(s) ==
    IF s = << >> THEN << >>
    ELSE << IF Occurs(CHARSET, Head(s)) THEN Head(s) ELSE " " >>
         \o NormalizeLoop(Tail(s))

RECURSIVE Spaces(_)
Spaces(k) == IF k <= 0 THEN << >> ELSE << " " >> \o Spaces(k - 1)

\* _normalize_text with the over-long branch leaving the text as it is.
NormalizeNoTruncate(text) ==
    LET t == NormalizeLoop(lower(text))
    IN  IF Len(t) < PAGE_LENGTH THEN t \o Spaces(PAGE_LENGTH - Len(t)) ELSE t

\* _normalize_text padding a short text with a whole page of spaces.
NormalizePadsFullPage(text) ==
    LET t == NormalizeLoop(lower(text))
    IN  IF Len(t) < PAGE_LENGTH
        THEN t \o Spaces(PAGE_LENGTH)
        ELSE SubSeq(t, 1, PAGE_LENGTH)

_normalize_text(text) ==
    LET t == NormalizeLoop(lower(text))
    IN  IF Len(t) < PAGE_LENGTH
        THEN t \o Spaces(PAGE_LENGTH - Len(t))
        ELSE SubSeq(t, 1, PAGE_LENGTH)

\* int(f"{page:03d}{volume:02d}{shelf}{wall}"), lines 117 and 148.
library_coordinate(wall, shelf, volume, page) ==
    int(ZeroPadded(page, 3) \o ZeroPadded(volume, 2) \o str(shelf) \o str(wall),
        10)

RECURSIVE TextValueLoopForward(_, _, _)
\* The loop of search_text weighting the first character it reads (the
\* page's last) highest instead of lowest.
TextValueLoopForward(rev, i, text_value) ==
    IF i >= Len(rev) THEN text_value
    ELSE TextValueLoopForward(rev, i + 1,
             text_value
             + _char_to_value(rev[i + 1])
               * Pow(CHARSET_LENGTH, Len(rev) - 1 - i))

RECURSIVE TextValueLoop(_, _, _)
\* The for loop of search_text over enumerate(reversed(text)): i is the
\* number of characters already added.
TextValueLoop(rev, i, text_value) ==
    IF i >= Len(rev) THEN text_value
    ELSE TextValueLoop(rev, i + 1,
             text_value + _char_to_value(rev[i + 1]) * Pow(CHARSET_LENGTH, i))

search_text(text, wall, shelf, volume, page) ==
    LET t == _normalize_text(text)
        coordinate == library_coordinate(wall, shelf, volume, page)
    IN  IF ~Returned(coordinate) THEN ValueError
        ELSE LET text_value == TextValueLoop(reversed(t), 0, 0)
                 combined == coordinate.ret * Pow(CHARSET_LENGTH, PAGE_LENGTH)
                             + text_value
                 hex_name == _to_base36(combined)
             IN  Return(<< hex_name, wall, shelf, volume, page >>)

\* Remainder and quotient that round toward zero, as in C or Java.
TruncRem(a, b) == IF a >= 0 THEN a % b ELSE 0 - ((0 - a) % b)

TruncDiv(a, b) == IF a >= 0 THEN a \div b ELSE 0 - ((0 - a) \div b)

RECURSIVE FromBase29LoopTruncating(_, _, _)
\* The loop of get_text_from_address on truncating % and //.
FromBase29LoopTruncating(remaining, k, chars) ==
    IF k = 0 THEN chars
    ELSE FromBase29LoopTruncating(TruncDiv(remaining, CHARSET_LENGTH), k - 1,
             Append(chars, _value_to_char(TruncRem(remaining, CHARSET_LENGTH))))

RECURSIVE FromBase29Loop(_, _, _)
\* The for loop of get_text_from_address: k iterations are left.
FromBase29Loop(remaining, k, chars) ==
    IF k = 0 THEN chars
    ELSE FromBase29Loop(remaining \div CHARSET_LENGTH, k - 1,
             Append(chars, _value_to_char(remaining % CHARSET_LENGTH)))

\* get_text_from_address subtracting the location without its 29^PAGE_LENGTH
\* factor.
GetTextUnscaled(hex_name, wall, shelf, volume, page) ==
    LET coordinate == library_coordinate(wall, shelf, volume, page)
        combined == _from_base36(hex_name)
    IN  IF ~Returned(coordinate) THEN ValueError
        ELSE IF ~Returned(combined) THEN ValueError
        ELSE LET text_value == combined.ret - coordinate.ret
             IN  Return(reversed(FromBase29Loop(text_value, PAGE_LENGTH, << >>)))

get_text_from_address(hex_name, wall, shelf, volume, page) ==
    LET coordinate == library_coordinate(wall, shelf, volume, page)
        combined == _from_base36(hex_name)
    IN  IF ~Returned(coordinate) THEN ValueError
        ELSE IF ~Returned(combined) THEN ValueError
        ELSE LET text_value ==
                     combined.ret
                     - coordinate.ret * Pow(CHARSET_LENGTH, PAGE_LENGTH)
             IN  Return(reversed(FromBase29Loop(text_value, PAGE_LENGTH, << >>)))

\* "https://libraryofbabel.info/book.cgi?"
URL_PREFIX ==
    << "h", "t", "t", "p", "s", ":", "/", "/", "l", "i", "b", "r", "a", "r",
       "y", "o", "f", "b", "a", "b", "e", "l", ".", "i", "n", "f", "o", "/",
       "b", "o", "o", "k", ".", "c", "g", "i", "?" >>

\* coordinates_to_url in the other layout, HEX-wWALL-sSHELF-vVOLUME:PAGE.
CoordinatesToUrlDashed(hex_name, wall, shelf, volume, page) ==
    Return(URL_PREFIX \o hex_name \o << "-", "w" >> \o str(wall)
           \o << "-", "s" >> \o str(shelf) \o << "-", "v" >>
           \o ZeroPadded(volume, 2) \o << ":" >> \o ZeroPadded(page, 3))

coordinates_to_url(hex_name, wall, shelf, volume, page) ==
    Return(URL_PREFIX \o hex_name \o << ":" >> \o str(wall) \o << ":" >>
           \o str(shelf) \o << ":" >> \o ZeroPadded(volume, 2) \o << ":" >>
           \o ZeroPadded(page, 3))

RECURSIVE split(_, _)
\* str.split(sep) for a one-character separator.
split(s, sep) ==
    IF ~Occurs(s, sep) THEN << s >>
    ELSE LET i == CHOOSE j \in 1..Len(s) :
                      s[j] = sep /\ \A k \in 1..(j - 1) : s[k] # sep
         IN  << SubSeq(s, 1, i - 1) >> \o split(SubSeq(s, i + 1, Len(s)), sep)

parse_url(url) ==
    LET query == IF Occurs(url, "?") THEN split(url, "?")[2] ELSE url
        parts == split(query, ":")
    IN  IF Len(parts) # 5 THEN ValueError
        ELSE LET hex_name == parts[1]
                 wall == int(parts[2], 10)
                 shelf == int(parts[3], 10)
                 volume == int(parts[4], 10)
                 page == int(parts[5], 10)
             IN  IF \E r \in {wall, shelf, volume, page} : ~Returned(r)
                 THEN ValueError
                 ELSE Return(<< hex_name, wall.ret, shelf.ret, volume.ret,
                                page.ret >>)

(***************************************************************************)
(* Inputs.                                                                 *)
(***************************************************************************)
SeqsUpTo(S, n) == UNION { [1..k -> S] : k \in 0..n }

\* Characters of the texts: the alphabet symbols with the smallest and the
\* largest digit value, an upper-case letter, an unsupported character and a
\* character whose lower-case form is two code points (padding adds the
\* space).
TextChars == { "a", ".", "Q", "#", "U+0130" }

\* Empty, short, exactly one page, and over-long texts.
Texts == SeqsUpTo(TextChars, PAGE_LENGTH + 1)

\* Coordinates << wall, shelf, volume, page >>: the defaults, all zero, the
\* documented maxima of wall, shelf and volume, a shelf that needs two
\* digits, a negative page and a negative volume.
Coords ==
    { << 1, 1, 1, 1 >>, << 0, 0, 0, 0 >>, << 2, 1, 1, 1 >>, << 4, 5, 32, 6 >>,
      << 1, 10, 1, 0 >>, << 1, 1, 1, -1 >>, << 1, 1, -1, 1 >> }

\* Coordinates for the URL functions, which do no arithmetic on them.
UrlCoords == Coords \cup { << 3, 2, 100, 1000 >>, << -1, -2, -3, -4 >> }

Nums == -1..MaxNum

\* Characters of the addresses handed to the decoder directly.
AddressChars == { "z", "Z", "-", "_", " ", "#" }

MaxAddressLen == 3

Addresses == SeqsUpTo(AddressChars, MaxAddressLen)

\* URLs are concatenations of these pieces.
UrlTokens ==
    { << "?" >>, << ":" >>, << "1" >>, << "x" >>,
      << ":", "1", ":", "1", ":", "1", ":", "1" >> }

MaxUrlTokens == 4

RECURSIVE Concat(_)
Concat(ss) == IF ss = << >> THEN << >> ELSE Head(ss) \o Concat(Tail(ss))

Urls == { Concat(ss) : ss \in SeqsUpTo(UrlTokens, MaxUrlTokens) }

(***************************************************************************)
(* The state machine: calls of the module's functions.                     *)
(***************************************************************************)
Init ==
    /\ last = NoCall
    /\ prev = NoCall

\* Nothing has been called yet: the caller holds only fresh inputs.
Start == last.fn = "none"

\* A call on fresh arguments.
Fresh(call) ==
    /\ last' = call
    /\ prev' = NoCall

\* A call on arguments taken from the latest call.
Chained(call) ==
    /\ last' = call
    /\ prev' = last

NormalizeText ==
    \/ /\ Start
       /\ \E text \in Texts :
             Fresh(Call("_normalize_text", << text >>,
                        Return(_normalize_text(text))))
    \/ /\ last.fn = "_normalize_text"
       /\ Chained(Call("_normalize_text", << last.ret >>,
                       Return(_normalize_text(last.ret))))

SearchText ==
    /\ Start
    /\ \E text \in Texts, c \in Coords :
          Fresh(Call("search_text", << text, c[1], c[2], c[3], c[4] >>,
                     search_text(text, c[1], c[2], c[3], c[4])))

\* On a typed-in address, on the address search_text returned, or once more
\* on the address just decoded (the model keeps two calls, so decoding a
\* third time reaches no new state).
GetTextFromAddress ==
    \/ /\ Start
       /\ \E hex_name \in Addresses, c \in Coords :
             Fresh(Call("get_text_from_address",
                        << hex_name, c[1], c[2], c[3], c[4] >>,
                        get_text_from_address(hex_name, c[1], c[2], c[3],
                                              c[4])))
    \/ /\ last.fn = "search_text"
       /\ Returned(last)
       /\ \E c \in Coords :
             Chained(Call("get_text_from_address",
                          << last.ret[1], c[1], c[2], c[3], c[4] >>,
                          get_text_from_address(last.ret[1], c[1], c[2], c[3],
                                                c[4])))
    \/ /\ last.fn = "get_text_from_address"
       /\ prev.fn # "get_text_from_address"
       /\ \E c \in Coords :
             Chained(Call("get_text_from_address",
                          << last.args[1], c[1], c[2], c[3], c[4] >>,
                          get_text_from_address(last.args[1], c[1], c[2], c[3],
                                                c[4])))

ToBase36 ==
    /\ Start
    /\ \E num \in Nums :
          Fresh(Call("_to_base36", << num >>, Return(_to_base36(num))))

FromBase36 ==
    \/ /\ Start
       /\ \E s \in Addresses :
             Fresh(Call("_from_base36", << s >>, _from_base36(s)))
    \/ /\ last.fn = "_to_base36"
       /\ Chained(Call("_from_base36", << last.ret >>, _from_base36(last.ret)))

CoordinatesToUrl ==
    \/ /\ last.fn = "search_text"
       /\ Returned(last)
       /\ Chained(Call("coordinates_to_url", last.ret,
                       coordinates_to_url(last.ret[1], last.ret[2], last.ret[3],
                                          last.ret[4], last.ret[5])))
    \/ /\ last.fn = "_to_base36"
       /\ \E c \in UrlCoords :
             Chained(Call("coordinates_to_url",
                          << last.ret, c[1], c[2], c[3], c[4] >>,
                          coordinates_to_url(last.ret, c[1], c[2], c[3], c[4])))

ParseUrl ==
    \/ /\ Start
       /\ \E url \in Urls :
             Fresh(Call("parse_url", << url >>, parse_url(url)))
    \/ /\ last.fn = "coordinates_to_url"
       /\ Chained(Call("parse_url", << last.ret >>, parse_url(last.ret)))

Next ==
    \/ NormalizeText
    \/ SearchText
    \/ GetTextFromAddress
    \/ ToBase36
    \/ FromBase36
    \/ CoordinatesToUrl
    \/ ParseUrl

Spec == Init /\ [][Next]_vars

(***************************************************************************)
(* Properties.                                                             *)
(***************************************************************************)
\* << wall, shelf, volume, page >> of a search_text or get_text_from_address
\* call.
Coordinate(call) == SubSeq(call.args, 2, 5)

\* Every field is a non-negative integer that fits its fixed decimal width:
\* wall 1 digit, shelf 1, volume 2, page 3.
FitsWidths(c) ==
    /\ c[1] \in 0..9
    /\ c[2] \in 0..9
    /\ c[3] \in 0..99
    /\ c[4] \in 0..999

IsAlphabetText(t) == \A i \in 1..Len(t) : Occurs(CHARSET, t[i])

IsBase36String(s) == \A i \in 1..Len(s) : Occurs(BASE36_DIGITS, s[i])

\* An address decoded with the coordinate it was encoded with, resp. with
\* another one.
EncodedThenDecoded ==
    /\ prev.fn = "search_text"
    /\ last.fn = "get_text_from_address"
    /\ last.args[1] = prev.ret[1]

\* C1: round trip.  For a text of at most PAGE_LENGTH alphabet characters
\* and a coordinate whose fields are non-negative and fit their widths,
\* search_text returns, and get_text_from_address of the returned address
\* with the same coordinate returns _normalize_text(text).
C1_RoundTrip ==
    /\ (/\ last.fn = "search_text"
        /\ FitsWidths(Coordinate(last)))
       => Returned(last)
    /\ (/\ EncodedThenDecoded
        /\ Coordinate(last) = Coordinate(prev)
        /\ Len(prev.args[1]) <= PAGE_LENGTH
        /\ IsAlphabetText(prev.args[1])
        /\ FitsWidths(Coordinate(prev)))
       => /\ Returned(last)
          /\ last.ret = _normalize_text(prev.args[1])

C1_Witness ==
    /\ EncodedThenDecoded
    /\ prev.args[1] = << ".", "a" >>
    /\ Coordinate(prev) = << 4, 5, 32, 6 >>
    /\ Coordinate(last) = << 4, 5, 32, 6 >>
    /\ Returned(last)
    /\ SubSeq(last.ret, 1, 2) = << ".", "a" >>

\* Two different coordinates whose fields fit their widths, the first used
\* to encode and the second to decode the address.
MismatchedDecode ==
    /\ EncodedThenDecoded
    /\ Coordinate(last) # Coordinate(prev)
    /\ FitsWidths(Coordinate(prev))
    /\ FitsWidths(Coordinate(last))

\* C2 as stated: decoding with a coordinate that differs from the one used
\* to encode raises no error and recovers a text that differs from the
\* normalized original.
C2_MismatchGivesGarbage ==
    MismatchedDecode
    => /\ Returned(last)
       /\ last.ret # _normalize_text(prev.args[1])

\* C2 as amended: decoding with a coordinate that differs from the one used
\* to encode raises no error and recovers exactly the normalized original.
C2_MismatchRecoversText ==
    MismatchedDecode
    => /\ Returned(last)
       /\ last.ret = _normalize_text(prev.args[1])

C2_Witness ==
    /\ MismatchedDecode
    /\ prev.args[1] = << "Q", "." >>
    /\ Coordinate(prev) = << 1, 1, 1, 1 >>
    /\ Coordinate(last) = << 4, 5, 32, 6 >>
    /\ Returned(last)
    /\ SubSeq(last.ret, 1, 2) = << "q", "." >>

\* C3: base-36 invertibility.  For n >= 0, _to_base36(n) is a non-empty
\* string of the digits 0-9a-z, it is "0" for n = 0, it does not start with
\* the digit 0 otherwise, and _from_base36 of it returns n.
C3_Base36Invertible ==
    /\ (last.fn = "_to_base36" /\ last.args[1] >= 0)
       => /\ Returned(last)
          /\ last.ret # << >>
          /\ IsBase36String(last.ret)
          /\ (last.args[1] = 0) <=> (last.ret = << "0" >>)
          /\ (last.args[1] > 0) => (Head(last.ret) # "0")
    /\ (/\ prev.fn = "_to_base36"
        /\ last.fn = "_from_base36"
        /\ prev.args[1] >= 0)
       => /\ Returned(last)
          /\ last.ret = prev.args[1]

C3_Witness ==
    /\ prev.fn = "_to_base36"
    /\ prev.args[1] = 35 * 36 + 10
    /\ prev.ret = << "z", "a" >>
    /\ last.fn = "_from_base36"
    /\ last.ret = 35 * 36 + 10

\* C4 as stated: get_text_from_address raises ValueError whenever the
\* address holds a character that is none of the base-36 digits 0-9a-z.
C4_RejectsNonDigits ==
    (/\ last.fn = "get_text_from_address"
     /\ ~IsBase36String(last.args[1]))
    => last.raised = "ValueError"

\* The part of s after the first occurrence of sep.
AfterFirst(s, sep) ==
    LET i == CHOOSE j \in 1..Len(s) :
                 s[j] = sep /\ \A k \in 1..(j - 1) : s[k] # sep
    IN  SubSeq(s, i + 1, Len(s))

\* C5 as stated: parse_url raises ValueError for every URL whose part
\* after the first '?' does not split on ':' into exactly 5 fields.
C5_RejectsWrongFieldCount ==
    (/\ last.fn = "parse_url"
     /\ Occurs(last.args[1], "?")
     /\ Len(split(AfterFirst(last.args[1], "?"), ":")) # 5)
    => last.raised = "ValueError"

\* C6: parse_url(coordinates_to_url(h, wall, shelf, volume, page)) returns
\* << h, wall, shelf, volume, page >> for every address h that _to_base36
\* produced and all non-negative coordinate fields.
C6_UrlRoundTrip ==
    (/\ prev.fn = "coordinates_to_url"
     /\ last.fn = "parse_url"
     /\ \A i \in 2..5 : prev.args[i] >= 0)
    => /\ Returned(prev)
       /\ last.args[1] = prev.ret
       /\ Returned(last)
       /\ last.ret = prev.args

C6_Witness ==
    /\ prev.fn = "coordinates_to_url"
    /\ prev.args = << << "z", "a" >>, 3, 2, 100, 1000 >>
    /\ last.fn = "parse_url"
    /\ Returned(last)
    /\ last.ret[4] = 100

\* C7: _normalize_text returns, for every text, exactly PAGE_LENGTH
\* characters, all of them alphabet symbols.
C7_FixedLength ==
    (last.fn = "_normalize_text")
    => /\ Returned(last)
       /\ Len(last.ret) = PAGE_LENGTH
       /\ IsAlphabetText(last.ret)

C7_Witness ==
    /\ last.fn = "_normalize_text"
    /\ prev.fn = "none"
    /\ Len(last.args[1]) > PAGE_LENGTH
    /\ Occurs(last.args[1], "U+0130")
    /\ Occurs(last.args[1], "#")
    /\ Len(last.ret) = PAGE_LENGTH

\* C8: _normalize_text is idempotent: applied to its own result it returns
\* that result.
C8_Idempotent ==
    (/\ prev.fn = "_normalize_text"
     /\ last.fn = "_normalize_text")
    => /\ last.args[1] = prev.ret
       /\ last.ret = prev.ret

C8_Witness ==
    /\ prev.fn = "_normalize_text"
    /\ prev.args[1] = << "Q" >>
    /\ last.fn = "_normalize_text"
    /\ Head(last.args[1]) = "q"
    /\ last.ret = last.args[1]

\* C9 as stated: whenever search_text returns, the address is a non-empty
\* base-36 string whose value is location * 29^PAGE_LENGTH + textValue,
\* with 0 <= textValue < 29^PAGE_LENGTH the base-29 value of the normalized
\* text, its last character least significant.
C9_AddressRepresentsCombined ==
    (/\ last.fn = "search_text"
     /\ Returned(last))
    => LET hex_name == last.ret[1]
           c == Coordinate(last)
           location == library_coordinate(c[1], c[2], c[3], c[4]).ret
           t == _normalize_text(last.args[1])
           textValue == TextValueLoop(reversed(t), 0, 0)
       IN  /\ hex_name # << >>
           /\ IsBase36String(hex_name)
           /\ 0 <= textValue
           /\ textValue < Pow(CHARSET_LENGTH, PAGE_LENGTH)
           /\ _from_base36(hex_name).ret
              = location * Pow(CHARSET_LENGTH, PAGE_LENGTH) + textValue

\* C10: the text get_text_from_address returns does not depend on the
\* coordinate: two calls on the same address that both return, return the
\* same text.
C10_CoordinateIndependent ==
    (/\ prev.fn = "get_text_from_address"
     /\ last.fn = "get_text_from_address"
     /\ Returned(prev)
     /\ Returned(last))
    => /\ last.args[1] = prev.args[1]
       /\ last.ret = prev.ret

C10_Witness ==
    /\ prev.fn = "get_text_from_address"
    /\ last.fn = "get_text_from_address"
    /\ prev.args = << << "-", "z" >>, 1, 1, 1, -1 >>
    /\ Coordinate(last) = << 4, 5, 32, 6 >>
    /\ Returned(prev)
    /\ Returned(last)
====
